---- MODULE Spec2Model ----
(***************************************************************************)
(* Model of the useProctoring hook (src/hooks/use-proctoring.ts).          *)
(*                                                                         *)
(* React state (logs, throttledLogs, mousePositions, isFocused,            *)
(* deviceInfo) and refs are variables.  The handlers, the inactivity       *)
(* timeout and the interval callback are created by the effect of lines    *)
(* 73-209 and read the state through the closure of the render that ran    *)
(* the effect; that closure is the variable `closure`.  The effect is run  *)
(* again (cleanup, then a fresh closure, fresh listeners and a fresh       *)
(* interval) only when one of its dependencies [logEvent,                  *)
(* getNormalizedThreshold, isFocused] changes, which is the action         *)
(* Commit.  Functional updates (setLogs(prev => ...)) act on the current   *)
(* state, plain reads (logs, mousePositions, isFocused, deviceInfo) act on *)
(* the closure.                                                            *)
(***************************************************************************)
EXTENDS Integers, Sequences, FiniteSets, TLC

\* ---- program constants ------------------------------------------------
MOUSE_THROTTLE == 500
RESIZE_THROTTLE == 500
INACTIVITY_MS == 3000
TICK_MS == 5000
WINDOW_MS == 5000
SECOND2_MS == 2000
DEFAULT_THRESHOLD == 10
Undefined == -1

\* ---- bounds -----------------------------------------------------------
\* Date.now() when the hook mounts ("t=0" of a session)
Epoch == 100000
\* length of a session in ms
MaxTime == 11000
\* largest advance of the clock between two events
Step == 1000
\* the same in the specifications that look at the throttle and at one session
FineStep == 250
\* number of input notifications in a session
MaxInputs == 2

\* ---- input domains ----------------------------------------------------
Points == {<<12, 7>>}
Keys == {<<"a">>, <<"E", "n", "t", "e", "r">>}
TextLengths == {50}
Viewports == {<<800, 600>>, <<1024, 768>>}
Screen == <<1000, 1000>>
UserAgent == {"mozilla", "windows"}

\* lines 186-194: the event types the effect registers a listener for
Registered == {"mousemove", "keydown", "visibilitychange", "copy", "paste", "cut",
               "resize", "focus", "blur"}

\* lines 197-205: the event types the cleanup removes the listener of
Removed == {"mousemove", "keydown", "visibilitychange", "copy", "paste", "cut",
            "resize", "focus", "blur"}

VARIABLES
  now,               \* Date.now()
  logs,              \* useState logs (pending log)
  throttledLogs,     \* useState throttledLogs (the value the hook returns)
  mousePositions,    \* useState mousePositions (position buffer)
  isFocused,         \* useState isFocused
  deviceInfo,        \* useState deviceInfo: <<>> is null, <<d>> is d
  clipboard,         \* what each clipboard event so far acted on: <<>> is null, <<text>>
  keys,              \* event.key of each keydown so far, a sequence of UTF-16 code units
  lastMouseMoveTime, \* lastMouseMoveTimeRef.current
  lastResizeTime,    \* lastResizeTimeRef.current
  inactivityTimerRef,\* inactivityTimerRef.current: <<>> is null, <<h>> a handle
  timeouts,          \* pending setTimeout tasks, each named by its deadline
  interval,          \* the setInterval of the current effect: <<next deadline>>
  closure,           \* state values captured by the effect that is in force
  mounted,           \* the component is mounted
  listeners,         \* event types a listener of the hook is registered for
  viewport,          \* <<window.innerWidth, window.innerHeight>>
  hidden,            \* document.hidden
  published,         \* every value passed to setThrottledLogs, in order
  inputs,            \* number of input notifications delivered so far
  lastInactivity,    \* <<timestamp>> of the latest "inactivity" record emitted
  op                 \* the last operation that ran

vars == <<now, logs, throttledLogs, mousePositions, isFocused, deviceInfo, clipboard, keys,
          lastMouseMoveTime, lastResizeTime, inactivityTimerRef, timeouts,
          interval, closure, mounted, listeners, viewport, hidden, published, inputs, lastInactivity, op>>

\* ---- helpers ----------------------------------------------------------
Min(a, b) == IF a <= b THEN a ELSE b

\* the double nearest to the square root of n, named by its radicand
Sqrt(n) == [sqrt |-> n]

\* lines 46-52: the user agent is the set of tokens it contains
detectDeviceType(userAgent) ==
  IF userAgent \cap {"mobile", "android", "iphone", "ipad", "ipod"} # {}
  THEN IF "ipad" \in userAgent THEN "tablet" ELSE "mobile"
  ELSE "desktop"

\* lines 65-70: the value given to setDeviceInfo
CurrentDeviceInfo(screen, vp, userAgent) ==
  [screenWidth |-> screen[1], screenHeight |-> screen[2],
   windowWidth |-> vp[1], windowHeight |-> vp[2],
   deviceType |-> detectDeviceType(userAgent)]

\* lines 34-43: the updater logEvent queues, applied to prev, when
\* <<window.innerWidth, window.innerHeight>> is vp
logEventAt(prev, type, data, vp) ==
  Append(prev, [type |-> type, data |-> data, timestamp |-> now,
                window_width |-> vp[1], window_height |-> vp[2]])

logEvent(prev, type, data) == logEventAt(prev, type, data, viewport)

\* clearTimeout(inactivityTimerRef.current), guarded by the null test
clearInactivity(pending, ref) ==
  IF ref # <<>> THEN pending \ {ref[1]} ELSE pending

\* resetInactivity without the clearTimeout of lines 84 and 128
resetInactivityKeepingPending ==
  /\ timeouts' = timeouts \cup {now + INACTIVITY_MS}
  /\ inactivityTimerRef' = <<now + INACTIVITY_MS>>

\* lines 84-85 and 128-129: cancel the pending task and schedule a new one
resetInactivity ==
  /\ timeouts' = clearInactivity(timeouts, inactivityTimerRef) \cup {now + INACTIVITY_MS}
  /\ inactivityTimerRef' = <<now + INACTIVITY_MS>>

\* an input notification reaches a listener of the effect in force
Delivered(type) ==
  /\ type \in listeners
  /\ inputs < MaxInputs
  /\ inputs' = inputs + 1
  /\ UNCHANGED lastInactivity

\* ---- the window analyzer (lines 155-168) ---------------------------------
\* line 156: mousePositions.filter(pos => pos.timestamp >= windowStart)
recentMouseData(positions, windowStart) ==
  SelectSeq(positions, LAMBDA pos : pos.timestamp >= windowStart)

\* findIndex with > in place of >= in the test of line 160
findIndexStrict(s, from) ==
  IF \E i \in 1..Len(s) : s[i].timestamp > from
  THEN CHOOSE i \in 1..Len(s) :
         /\ s[i].timestamp > from
         /\ \A j \in 1..(i - 1) : s[j].timestamp <= from
  ELSE 0

\* line 160: findIndex, 0 standing for JavaScript's -1 (indices start at 1)
findIndex(s, from) ==
  IF \E i \in 1..Len(s) : s[i].timestamp >= from
  THEN CHOOSE i \in 1..Len(s) :
         /\ s[i].timestamp >= from
         /\ \A j \in 1..(i - 1) : s[j].timestamp < from
  ELSE 0

\* second2 without the search for the sample 2000ms into the window
second2Earliest(recent, windowStart) == recent[1]

\* lines 161-162: the two reference samples
second2(recent, windowStart) ==
  IF findIndex(recent, windowStart + SECOND2_MS) >= 1
  THEN recent[findIndex(recent, windowStart + SECOND2_MS)]
  ELSE recent[1]

second5(recent) == recent[Len(recent)]

\* lines 163-165: the radicand of distance
distanceSquared(a, b) == (b.x - a.x) * (b.x - a.x) + (b.y - a.y) * (b.y - a.y)

\* Pairs <<d2, s>> with d2 * 40000 = s for which IEEE-754 double arithmetic
\* gives Math.sqrt(d2) < 0.005 * Math.sqrt(s): the two sides are equal as
\* reals and the rounding of the right-hand side lands one ulp above.
\* (Math.sqrt(193) = 13.892443989449804,
\*  0.005 * Math.sqrt(7720000) = 13.892443989449806.)
RoundsAbove == {<<193, 7720000>>}

\* lines 55-62 and 167: distance < getNormalizedThreshold(), with distance the
\* double nearest to sqrt(d2).  Away from equality the doubles compare as the
\* reals do.
belowThreshold(d2, info) ==
  IF info # <<>>
  THEN LET s == info[1].screenWidth * info[1].screenWidth
                + info[1].screenHeight * info[1].screenHeight
       IN  \/ d2 * 40000 < s
           \/ d2 * 40000 = s /\ <<d2, s>> \in RoundsAbove
  ELSE d2 < DEFAULT_THRESHOLD * DEFAULT_THRESHOLD

\* lines 155-168: the records the analysis appends to prev at time now
analyze(prev, positions, info) ==
  LET windowStart == now - WINDOW_MS
      recent == recentMouseData(positions, windowStart)
  IN  IF Len(recent) >= 2
      THEN LET d2 == distanceSquared(second2(recent, windowStart), second5(recent))
           IN  logEvent(prev, "mouse_analysis",
                        [distance |-> Sqrt(d2),
                         minimalMovement |-> belowThreshold(d2, info)])
      ELSE prev

\* withDeviceInfo without the window_width and window_height keys after the
\* spread: the record keeps the viewport logEvent gave it
withDeviceInfoKeepingViewport(log, info) ==
  [type |-> log.type, data |-> log.data, timestamp |-> log.timestamp,
   device_type |-> IF info # <<>> THEN info[1].deviceType ELSE "undefined",
   screen_width |-> IF info # <<>> THEN info[1].screenWidth ELSE Undefined,
   screen_height |-> IF info # <<>> THEN info[1].screenHeight ELSE Undefined,
   window_width |-> log.window_width,
   window_height |-> log.window_height]

\* lines 172-179: one record of logsWithDeviceInfo
withDeviceInfo(log, info) ==
  [type |-> log.type, data |-> log.data, timestamp |-> log.timestamp,
   device_type |-> IF info # <<>> THEN info[1].deviceType ELSE "undefined",
   screen_width |-> IF info # <<>> THEN info[1].screenWidth ELSE Undefined,
   screen_height |-> IF info # <<>> THEN info[1].screenHeight ELSE Undefined,
   window_width |-> IF info # <<>> THEN info[1].windowWidth ELSE Undefined,
   window_height |-> IF info # <<>> THEN info[1].windowHeight ELSE Undefined]

logsWithDeviceInfo(captured, info) ==
  [i \in 1..Len(captured) |-> withDeviceInfo(captured[i], info)]

\* ---- the state once the hook has mounted ----------------------------------
\* The effect of lines 64-71 has set deviceInfo, and the render this caused
\* has run the effect of lines 73-209 again (getNormalizedThreshold changed)
\* with deviceInfo set, logs empty and isFocused true.
Init ==
  /\ now = Epoch
  /\ logs = <<>>
  /\ throttledLogs = <<>>
  /\ mousePositions = <<>>
  /\ isFocused = TRUE
  /\ clipboard = <<>>
  /\ keys = <<>>
  /\ viewport = <<1024, 768>>
  /\ deviceInfo = <<CurrentDeviceInfo(Screen, viewport, UserAgent)>>
  /\ lastMouseMoveTime = 0
  /\ lastResizeTime = 0
  /\ inactivityTimerRef = <<>>
  /\ timeouts = {}
  /\ interval = <<Epoch + TICK_MS>>
  /\ closure = [logs |-> <<>>, mousePositions |-> <<>>, isFocused |-> TRUE,
                deviceInfo |-> deviceInfo]
  /\ mounted = TRUE
  /\ listeners = Registered
  /\ hidden = FALSE
  /\ published = <<>>
  /\ inputs = 0
  /\ lastInactivity = <<>>
  /\ op = "mount"

\* ---- listeners -----------------------------------------------------------
\* handleMouseMove with > in place of >= in the throttle test
handleMouseMoveStrict(x, y) ==
  /\ Delivered("mousemove")
  /\ op' = "mousemove"
  /\ IF now - lastMouseMoveTime > MOUSE_THROTTLE
     THEN /\ logs' = logEvent(logs, "mouse_move", [x |-> x, y |-> y])
          /\ mousePositions' = Append(mousePositions, [x |-> x, y |-> y, timestamp |-> now])
          /\ lastMouseMoveTime' = now
          /\ resetInactivity
     ELSE UNCHANGED <<logs, mousePositions, lastMouseMoveTime, timeouts, inactivityTimerRef>>
  /\ UNCHANGED <<now, throttledLogs, isFocused, deviceInfo, clipboard, keys, lastResizeTime, interval,
                 closure, mounted, listeners, viewport, hidden, published>>

\* lines 75-87
handleMouseMove(x, y) ==
  /\ Delivered("mousemove")
  /\ op' = "mousemove"
  /\ IF now - lastMouseMoveTime >= MOUSE_THROTTLE
     THEN /\ logs' = logEvent(logs, "mouse_move", [x |-> x, y |-> y])
          /\ mousePositions' = Append(mousePositions, [x |-> x, y |-> y, timestamp |-> now])
          /\ lastMouseMoveTime' = now
          /\ resetInactivity
     ELSE UNCHANGED <<logs, mousePositions, lastMouseMoveTime, timeouts, inactivityTimerRef>>
  /\ UNCHANGED <<now, throttledLogs, isFocused, deviceInfo, clipboard, keys, lastResizeTime, interval,
                 closure, mounted, listeners, viewport, hidden, published>>

\* a text is the sequence of its characters
TextOf(c, n) == [i \in 1..n |-> c]

\* lines 93, 100 and 107: text?.length || 0, text being null (<<>>) or <<text>>
textLength(text) == IF text = <<>> THEN 0 ELSE Len(text[1])

\* the texts a clipboard event acts on: one in Spec, and in SpecClipboard
\* texts of several lengths and texts of the same length that differ
Texts == {TextOf("x", n) : n \in TextLengths}

ClipboardTexts == {TextOf(c, n) : c \in {"x", "y"}, n \in TextLengths \cup {0, 2}}

Selections == {<<>>} \cup {<<text>> : text \in ClipboardTexts}

\* handleCopy with the selected text added to the payload
handleCopyWithText(selection) ==
  /\ Delivered("copy")
  /\ op' = "copy"
  /\ clipboard' = Append(clipboard, selection)
  /\ logs' = logEvent(logs, "clipboard", [action |-> "copy",
                                          selection |-> textLength(selection),
                                          text |-> selection])
  /\ UNCHANGED <<now, throttledLogs, mousePositions, isFocused, deviceInfo, keys,
                 lastMouseMoveTime, lastResizeTime, inactivityTimerRef, timeouts,
                 interval, closure, mounted, listeners, viewport, hidden, published>>

\* lines 90-95: selection is window.getSelection()?.toString()
handleCopy(selection) ==
  /\ Delivered("copy")
  /\ op' = "copy"
  /\ clipboard' = Append(clipboard, selection)
  /\ logs' = logEvent(logs, "clipboard", [action |-> "copy",
                                          selection |-> textLength(selection)])
  /\ UNCHANGED <<now, throttledLogs, mousePositions, isFocused, deviceInfo, keys,
                 lastMouseMoveTime, lastResizeTime, inactivityTimerRef, timeouts,
                 interval, closure, mounted, listeners, viewport, hidden, published>>

\* lines 97-102: text is event.clipboardData?.getData('text')
handlePaste(text) ==
  /\ Delivered("paste")
  /\ op' = "paste"
  /\ clipboard' = Append(clipboard, text)
  /\ logs' = logEvent(logs, "clipboard", [action |-> "paste",
                                          length |-> textLength(text)])
  /\ UNCHANGED <<now, throttledLogs, mousePositions, isFocused, deviceInfo, keys,
                 lastMouseMoveTime, lastResizeTime, inactivityTimerRef, timeouts,
                 interval, closure, mounted, listeners, viewport, hidden, published>>

\* lines 104-109
handleCut(selection) ==
  /\ Delivered("cut")
  /\ op' = "cut"
  /\ clipboard' = Append(clipboard, selection)
  /\ logs' = logEvent(logs, "clipboard", [action |-> "cut",
                                          selection |-> textLength(selection)])
  /\ UNCHANGED <<now, throttledLogs, mousePositions, isFocused, deviceInfo, keys,
                 lastMouseMoveTime, lastResizeTime, inactivityTimerRef, timeouts,
                 interval, closure, mounted, listeners, viewport, hidden, published>>

\* handleResize with lastResizeTimeRef set before the throttle test instead
\* of inside it
handleResizeStampingEvery(vp) ==
  /\ Delivered("resize")
  /\ op' = "resize"
  /\ viewport' = vp
  /\ lastResizeTime' = now
  /\ IF now - lastResizeTime >= RESIZE_THROTTLE
     THEN logs' = logEventAt(logs, "window_resize",
                             [width |-> vp[1], height |-> vp[2],
                              ratio |-> <<vp[1], Screen[1]>>], vp)
     ELSE UNCHANGED logs
  /\ UNCHANGED <<now, throttledLogs, mousePositions, isFocused, deviceInfo, clipboard, keys,
                 lastMouseMoveTime, inactivityTimerRef, timeouts, interval, closure,
                 mounted, listeners, hidden, published>>

\* lines 112-122: the window has taken the size vp when the listener runs;
\* ratio = innerWidth / screen.width is kept as the pair of its terms
handleResize(vp) ==
  /\ Delivered("resize")
  /\ op' = "resize"
  /\ viewport' = vp
  /\ IF now - lastResizeTime >= RESIZE_THROTTLE
     THEN /\ logs' = logEventAt(logs, "window_resize",
                                 [width |-> vp[1], height |-> vp[2],
                                  ratio |-> <<vp[1], Screen[1]>>], vp)
          /\ lastResizeTime' = now
     ELSE UNCHANGED <<logs, lastResizeTime>>
  /\ UNCHANGED <<now, throttledLogs, mousePositions, isFocused, deviceInfo, clipboard, keys,
                 lastMouseMoveTime, inactivityTimerRef, timeouts, interval, closure,
                 mounted, listeners, hidden, published>>

\* lines 125-130: event.key is a string, the sequence of its UTF-16 code
\* units, and event.key.length their number
handleKeyDown(key) ==
  /\ Delivered("keydown")
  /\ op' = "keydown"
  /\ keys' = Append(keys, key)
  /\ logs' = logEvent(logs, "key_press",
                      [key_type |-> IF Len(key) = 1 THEN <<"character">> ELSE key])
  /\ resetInactivity
  /\ UNCHANGED <<now, throttledLogs, mousePositions, isFocused, deviceInfo, clipboard,
                 lastMouseMoveTime, lastResizeTime, interval, closure, mounted, listeners,
                 viewport, hidden, published>>

\* handleVisibilityChange emitting only when document.hidden has changed
handleVisibilityChangeOnEdge(h) ==
  /\ Delivered("visibilitychange")
  /\ op' = "visibilitychange"
  /\ hidden' = h
  /\ IF h # hidden
     THEN logs' = logEvent(logs, "tab_switch", [status |-> IF h THEN "hidden" ELSE "visible"])
     ELSE UNCHANGED logs
  /\ UNCHANGED <<now, throttledLogs, mousePositions, isFocused, deviceInfo, clipboard, keys,
                 lastMouseMoveTime, lastResizeTime, inactivityTimerRef, timeouts,
                 interval, closure, mounted, listeners, viewport, published>>

\* lines 133-135: document.hidden is h when the listener runs
handleVisibilityChange(h) ==
  /\ Delivered("visibilitychange")
  /\ op' = "visibilitychange"
  /\ hidden' = h
  /\ logs' = logEvent(logs, "tab_switch", [status |-> IF h THEN "hidden" ELSE "visible"])
  /\ UNCHANGED <<now, throttledLogs, mousePositions, isFocused, deviceInfo, clipboard, keys,
                 lastMouseMoveTime, lastResizeTime, inactivityTimerRef, timeouts,
                 interval, closure, mounted, listeners, viewport, published>>

\* lines 138-143: isFocused is the value the listener's closure holds
handleFocus ==
  /\ Delivered("focus")
  /\ op' = "focus"
  /\ IF ~closure.isFocused
     THEN /\ isFocused' = TRUE
          /\ logs' = logEvent(logs, "window_state_change", [state |-> "focused"])
     ELSE UNCHANGED <<isFocused, logs>>
  /\ UNCHANGED <<now, throttledLogs, mousePositions, deviceInfo, clipboard, keys, lastMouseMoveTime,
                 lastResizeTime, inactivityTimerRef, timeouts, interval, closure,
                 mounted, listeners, viewport, hidden, published>>

\* lines 145-150
handleBlur ==
  /\ Delivered("blur")
  /\ op' = "blur"
  /\ IF closure.isFocused
     THEN /\ isFocused' = FALSE
          /\ logs' = logEvent(logs, "window_state_change", [state |-> "blurred"])
     ELSE UNCHANGED <<isFocused, logs>>
  /\ UNCHANGED <<now, throttledLogs, mousePositions, deviceInfo, clipboard, keys, lastMouseMoveTime,
                 lastResizeTime, inactivityTimerRef, timeouts, interval, closure,
                 mounted, listeners, viewport, hidden, published>>

\* ---- timers --------------------------------------------------------------
\* lines 85 and 129: the callback of the inactivity timeout whose deadline is d
inactivityFire(d) ==
  /\ d \in timeouts
  /\ d <= now
  /\ op' = "inactivity"
  /\ timeouts' = timeouts \ {d}
  /\ logs' = logEvent(logs, "inactivity", [duration |-> INACTIVITY_MS])
  /\ lastInactivity' = <<now>>
  /\ UNCHANGED <<inputs, now, throttledLogs, mousePositions, isFocused, deviceInfo, clipboard, keys,
                 lastMouseMoveTime, lastResizeTime, inactivityTimerRef, interval,
                 closure, mounted, listeners, viewport, hidden, published>>

\* line 181: setLogs([])
setLogsEmpty(prev) == <<>>

\* line 182: the updater of setMousePositions
pruneMousePositions(prev, windowStart) ==
  SelectSeq(prev, LAMBDA pos : pos.timestamp >= windowStart)

\* lines 153-184: the interval callback.  logs, mousePositions, isFocused,
\* deviceInfo and getNormalizedThreshold are those of the closure; the
\* updaters of logEvent, setLogs and setMousePositions act on the state.
intervalTick ==
  /\ interval # <<>>
  /\ interval[1] <= now
  /\ op' = "tick"
  /\ interval' = <<interval[1] + TICK_MS>>
  /\ IF Len(closure.logs) > 0
     THEN LET analysed == analyze(logs, closure.mousePositions, closure.deviceInfo)
              withFocus == logEvent(analysed, "focus_state",
                                    [isFocused |-> closure.isFocused])
              batch == logsWithDeviceInfo(closure.logs, closure.deviceInfo)
          IN  /\ throttledLogs' = batch
              /\ published' = Append(published, batch)
              /\ logs' = setLogsEmpty(withFocus)
              /\ mousePositions' = pruneMousePositions(mousePositions, now - WINDOW_MS)
     ELSE UNCHANGED <<throttledLogs, published, logs, mousePositions>>
  /\ UNCHANGED <<inputs, lastInactivity, now, isFocused, deviceInfo, clipboard, keys, lastMouseMoveTime, lastResizeTime,
                 inactivityTimerRef, timeouts, closure, mounted, listeners, viewport, hidden>>

\* ---- the effect of lines 73-209 --------------------------------------------
\* line 209: a dependency differs from the one the effect in force was run with
\* (logEvent never changes; getNormalizedThreshold changes with deviceInfo)
DepsChanged ==
  \/ closure.isFocused # isFocused
  \/ closure.deviceInfo # deviceInfo

\* lines 196-208 then 73-194: the cleanup of the effect in force, then the
\* effect of the new render
Commit ==
  /\ mounted
  /\ DepsChanged
  /\ op' = "commit"
  /\ timeouts' = clearInactivity(timeouts, inactivityTimerRef)
  /\ interval' = <<now + TICK_MS>>
  /\ closure' = [logs |-> logs, mousePositions |-> mousePositions,
                 isFocused |-> isFocused, deviceInfo |-> deviceInfo]
  /\ listeners' = (listeners \ Removed) \cup Registered
  /\ UNCHANGED <<inputs, lastInactivity, now, logs, throttledLogs, mousePositions, isFocused, deviceInfo, clipboard, keys,
                 lastMouseMoveTime, lastResizeTime, inactivityTimerRef, mounted,
                 viewport, hidden, published>>

\* the cleanup without the clearTimeout of line 207
UnmountLeavingTimeout ==
  /\ mounted
  /\ op' = "unmount"
  /\ mounted' = FALSE
  /\ listeners' = listeners \ Removed
  /\ interval' = <<>>
  /\ timeouts' = timeouts
  /\ UNCHANGED <<inputs, lastInactivity, now, logs, throttledLogs, mousePositions, isFocused, deviceInfo, clipboard, keys,
                 lastMouseMoveTime, lastResizeTime, inactivityTimerRef, closure,
                 viewport, hidden, published>>

\* lines 196-208: the cleanup when the component unmounts
Unmount ==
  /\ mounted
  /\ op' = "unmount"
  /\ mounted' = FALSE
  /\ listeners' = listeners \ Removed
  /\ interval' = <<>>
  /\ timeouts' = clearInactivity(timeouts, inactivityTimerRef)
  /\ UNCHANGED <<inputs, lastInactivity, now, logs, throttledLogs, mousePositions, isFocused, deviceInfo, clipboard, keys,
                 lastMouseMoveTime, lastResizeTime, inactivityTimerRef, closure,
                 viewport, hidden, published>>

\* ---- time ------------------------------------------------------------------
Deadlines == timeouts \cup {interval[i] : i \in DOMAIN interval}

\* The clock moves on, by step at most, when every task that is due has run
\* and React has committed the renders it scheduled; it stops at the next
\* deadline.
AdvanceBy(step) ==
  /\ now < Epoch + MaxTime
  /\ mounted \/ Deadlines # {}
  /\ ~(mounted /\ DepsChanged)
  /\ \A d \in Deadlines : d > now
  /\ now' = CHOOSE t \in {now + step, Epoch + MaxTime} \cup Deadlines :
              \A u \in {now + step, Epoch + MaxTime} \cup Deadlines : t <= u
  /\ op' = "advance"
  /\ UNCHANGED <<inputs, lastInactivity, logs, throttledLogs, mousePositions,
                 isFocused, deviceInfo, clipboard, keys, lastMouseMoveTime, lastResizeTime,
                 inactivityTimerRef, timeouts, interval, closure, mounted, listeners, viewport,
                 hidden, published>>

Advance == AdvanceBy(Step)

AdvanceFine == AdvanceBy(FineStep)

Next ==
  \/ \E p \in Points : handleMouseMove(p[1], p[2])
  \/ \E text \in Texts : handleCopy(<<text>>)
  \/ \E text \in Texts : handlePaste(<<text>>)
  \/ \E text \in Texts : handleCut(<<text>>)
  \/ \E vp \in Viewports : handleResize(vp)
  \/ \E k \in Keys : handleKeyDown(k)
  \/ \E h \in BOOLEAN : handleVisibilityChange(h)
  \/ handleFocus
  \/ handleBlur
  \/ \E d \in timeouts : inactivityFire(d)
  \/ intervalTick
  \/ Commit
  \/ Unmount
  \/ Advance

Spec == Init /\ [][Next]_vars

\* ---- the end of the session and what follows it ------------------------------
\* document or window dispatches an event of a type the hook has no listener
\* registered for: nothing of the hook runs
unheard(type) ==
  /\ type \notin listeners
  /\ op # "unheard"
  /\ op' = "unheard"
  /\ UNCHANGED <<now, logs, throttledLogs, mousePositions, isFocused, deviceInfo, clipboard, keys,
                 lastMouseMoveTime, lastResizeTime, inactivityTimerRef, timeouts,
                 interval, closure, mounted, listeners, viewport, hidden, published,
                 inputs, lastInactivity>>

NextTeardown ==
  \/ \E p \in Points : handleMouseMove(p[1], p[2])
  \/ \E k \in Keys : handleKeyDown(k)
  \/ handleFocus
  \/ handleBlur
  \/ \E d \in timeouts : inactivityFire(d)
  \/ intervalTick
  \/ Commit
  \/ Unmount
  \/ \E type \in Registered : unheard(type)
  \/ Advance

SpecTeardown == Init /\ [][NextTeardown]_vars

\* ---- the clipboard listeners on their own -----------------------------------
NextClipboard ==
  \/ \E selection \in Selections : handleCopy(selection)
  \/ \E text \in Selections : handlePaste(text)
  \/ \E selection \in Selections : handleCut(selection)

SpecClipboard == Init /\ [][NextClipboard]_vars

\* ---- the keydown listener on its own ------------------------------------------
\* UTF-16 code units of the surrogate ranges D800-DBFF and DC00-DFFF
HighSurrogates == {"D83A"}

LowSurrogates == {"DD00"}

\* values of event.key: the letters a and b, the named key Enter, and the
\* ADLaM letter U+1E900, one character that takes the two code units D83A DD00
KeyStrings == {<<"a">>, <<"b">>, <<"E", "n", "t", "e", "r">>, <<"D83A", "DD00">>}

NextKeys ==
  \/ \E key \in KeyStrings : handleKeyDown(key)
  \/ \E d \in timeouts : inactivityFire(d)
  \/ intervalTick
  \/ Advance

SpecKeys == Init /\ [][NextKeys]_vars

\* ---- the throttle gates under a finer clock ---------------------------------
\* (no focus or blur arrives, so no dependency of the effect changes)
NextThrottle ==
  \/ \E p \in Points : handleMouseMove(p[1], p[2])
  \/ \E vp \in Viewports : handleResize(vp)
  \/ \E d \in timeouts : inactivityFire(d)
  \/ intervalTick
  \/ AdvanceFine

SpecThrottle == Init /\ [][NextThrottle]_vars

\* ---- one session with a single key-press when it starts ----------------------
NextSession ==
  \/ \E k \in Keys : now = Epoch /\ inputs = 0 /\ handleKeyDown(k)
  \/ \E d \in timeouts : inactivityFire(d)
  \/ intervalTick
  \/ AdvanceFine

SpecSession == Init /\ [][NextSession]_vars

\* ---- the window analyzer on its own -----------------------------------------
\* most samples the position buffer holds when the analysis runs
MaxSamples == 3

SampleXs == {0, 1, 12, 100}
SampleYs == {0, 7}
SampleTimes == {Epoch - 1000, Epoch, Epoch + 1000, Epoch + 2000, Epoch + 3000, Epoch + 5000}
Screens == {<<1000, 1000>>, <<2560, 1080>>, <<1200, 1600>>}

Samples == [x : SampleXs, y : SampleYs, timestamp : SampleTimes]

\* the buffers handleMouseMove can build: samples in the order of their times,
\* two of them at least MOUSE_THROTTLE apart
Buffers ==
  UNION {{b \in [1..n -> Samples] :
            \A i \in 1..(n - 1) : b[i + 1].timestamp - b[i].timestamp >= MOUSE_THROTTLE}
         : n \in 0..MaxSamples}

InitAnalysis ==
  /\ now = Epoch + WINDOW_MS
  /\ logs = <<>>
  /\ throttledLogs = <<>>
  /\ mousePositions \in Buffers
  /\ isFocused = TRUE
  /\ clipboard = <<>>
  /\ keys = <<>>
  /\ viewport = <<1024, 768>>
  /\ deviceInfo \in {<<>>} \cup {<<CurrentDeviceInfo(sc, viewport, UserAgent)>> : sc \in Screens}
  /\ lastMouseMoveTime = 0
  /\ lastResizeTime = 0
  /\ inactivityTimerRef = <<>>
  /\ timeouts = {}
  /\ interval = <<now>>
  /\ closure = [logs |-> <<>>, mousePositions |-> mousePositions,
                isFocused |-> TRUE, deviceInfo |-> deviceInfo]
  /\ mounted = TRUE
  /\ listeners = Registered
  /\ hidden = FALSE
  /\ published = <<>>
  /\ inputs = 0
  /\ lastInactivity = <<>>
  /\ op = "mount"

\* lines 155-168 run once on the buffer and the device information of the closure
analysisStep ==
  /\ op = "mount"
  /\ op' = "analysis"
  /\ logs' = analyze(logs, closure.mousePositions, closure.deviceInfo)
  /\ UNCHANGED <<now, throttledLogs, mousePositions, isFocused, deviceInfo, clipboard, keys,
                 lastMouseMoveTime, lastResizeTime, inactivityTimerRef, timeouts,
                 interval, closure, mounted, listeners, viewport, hidden, published, inputs,
                 lastInactivity>>

SpecAnalysis == InitAnalysis /\ [][analysisStep]_vars

\* ======================= properties =========================================
\* what a published record keeps of the pending record it was made from
Identity(r) == [type |-> r.type, data |-> r.data, timestamp |-> r.timestamp]

Identities(s) == {Identity(s[i]) : i \in DOMAIN s}

\* the step is a periodic tick, and it publishes a batch
IsTick == op' = "tick"

Publishes == Len(published') = Len(published) + 1

\* C1: at every periodic tick a batch is published if and only if the pending
\* log is non-empty when the tick fires: a non-empty pending log is published
\* and cleared, an empty one leaves the published value as it was; and the
\* published value leaves the empty sequence only at a tick that fires with a
\* non-empty pending log.
C1_TickPublishesIffPending ==
  [][/\ IsTick =>
          IF logs # <<>>
          THEN Publishes /\ logs' = <<>>
          ELSE published' = published /\ throttledLogs' = throttledLogs
      /\ (throttledLogs = <<>> /\ throttledLogs' # <<>>) => (IsTick /\ logs # <<>>)
    ]_vars

\* C2: no lost update and no double count: a tick removes from the pending
\* log only records that are in the batch it publishes, and the batch it
\* publishes shares no record with an earlier batch.
C2_NoLostUpdateNoDoubleCount ==
  [][IsTick =>
       /\ \A i \in DOMAIN logs :
            Identity(logs[i]) \notin Identities(logs') =>
              Publishes /\ Identity(logs[i]) \in Identities(throttledLogs')
       /\ Publishes =>
            \A k \in DOMAIN published :
              Identities(published[k]) \cap Identities(throttledLogs') = {}
    ]_vars

\* the records of the given type in all the batches published so far
PublishedOfType(type) ==
  UNION {{<<k, i>> : i \in {j \in DOMAIN published[k] : published[k][j].type = type}}
         : k \in DOMAIN published}

\* C3: in a session of 11 seconds with exactly one key-press when it starts
\* and no other input notification, the batches published contain, taken
\* together, exactly one key_press record, exactly one inactivity record and
\* no mouse_analysis record.
C3_OneKeyPressSession ==
  (now = Epoch + MaxTime /\ inputs = 1) =>
     /\ Cardinality(PublishedOfType("key_press")) = 1
     /\ Cardinality(PublishedOfType("inactivity")) = 1
     /\ Cardinality(PublishedOfType("mouse_analysis")) = 0

\* the step delivers a pointer-move notification
IsMouseMove == op' = "mousemove" /\ inputs' = inputs + 1

\* C4: a pointer-move notification is accepted (one mouse_move record and one
\* pointer sample appended) if and only if at least 500ms have elapsed since
\* the last accepted pointer-move, the first one being always accepted; so
\* any two accepted pointer-moves are at least 500ms apart.
C4_PointerMoveThrottle ==
  /\ [][IsMouseMove =>
          LET elapsed == \/ mousePositions = <<>>
                         \/ now - mousePositions[Len(mousePositions)].timestamp >= 500
          IN  IF elapsed
              THEN /\ Len(logs') = Len(logs) + 1
                   /\ logs'[Len(logs')].type = "mouse_move"
                   /\ logs'[Len(logs')].timestamp = now
                   /\ Len(mousePositions') = Len(mousePositions) + 1
                   /\ mousePositions'[Len(mousePositions')].timestamp = now
              ELSE logs' = logs /\ mousePositions' = mousePositions
       ]_vars
  /\ [](\A i, j \in DOMAIN mousePositions :
          i < j => mousePositions[j].timestamp - mousePositions[i].timestamp >= 500)

\* C4 witness: a second pointer-move accepted exactly 500ms after the first
C4_Witness ==
  /\ op = "mousemove"
  /\ Len(mousePositions) = 2
  /\ mousePositions[2].timestamp - mousePositions[1].timestamp = 500

\* C5: the clock passes the end of a 3000ms quiet period that followed a
\* pointer-move or a key-press only after an inactivity record was emitted at
\* that very time, whatever else arrived meanwhile; and an inactivity record
\* is emitted only 3000ms after the last pointer or key activity.
C5_InactivityDebounce ==
  [][/\ op' = "inactivity" =>
          inactivityTimerRef # <<>> /\ now = inactivityTimerRef[1]
     /\ (mounted /\ inactivityTimerRef # <<>> /\ now = inactivityTimerRef[1] /\ now' > now) =>
          lastInactivity = <<now>>
    ]_vars

\* C6: a focus or blur notification emits a window_state_change record only
\* when the focus flag flips, and the record names the new state.
C6_FocusEdgeTriggered ==
  [][op' \in {"focus", "blur"} =>
       /\ logs' # logs <=> isFocused' # isFocused
       /\ logs' # logs =>
            logs'[Len(logs')].data.state = IF isFocused' THEN "focused" ELSE "blurred"
    ]_vars

\* C7: every batch a tick publishes holds exactly one focus_state record, made
\* at that tick, whose isFocused is the focus flag at the time of the tick.
C7_OneFocusStatePerBatch ==
  [][(IsTick /\ Publishes) =>
       LET fs == {i \in DOMAIN throttledLogs' : throttledLogs'[i].type = "focus_state"}
       IN  /\ Cardinality(fs) = 1
           /\ \A i \in fs : /\ throttledLogs'[i].timestamp = now
                            /\ throttledLogs'[i].data.isFocused = isFocused
    ]_vars

\* C8: at every tick, if the position buffer holds at least two samples with
\* timestamp >= now - 5000 the tick publishes a batch with exactly one
\* mouse_analysis record made at that tick, and otherwise it publishes no
\* mouse_analysis record made at that tick.
C8_AnalysisCadence ==
  [][IsTick =>
       LET recent == {i \in DOMAIN mousePositions :
                        mousePositions[i].timestamp >= now - 5000}
           made == IF Publishes
                   THEN {i \in DOMAIN throttledLogs' :
                           /\ throttledLogs'[i].type = "mouse_analysis"
                           /\ throttledLogs'[i].timestamp = now}
                   ELSE {}
       IN  Cardinality(made) = IF Cardinality(recent) >= 2 THEN 1 ELSE 0
    ]_vars

\* the analysis has run on exactly the samples (0,0,t=0) and (100,0,t=5000),
\* at now = 5000, with a threshold of 10 (no device information, or a screen
\* whose diagonal is 2000)
C9_Given ==
  /\ op = "analysis"
  /\ now = Epoch + 5000
  /\ closure.mousePositions = <<[x |-> 0, y |-> 0, timestamp |-> Epoch],
                               [x |-> 100, y |-> 0, timestamp |-> Epoch + 5000]>>
  /\ \/ closure.deviceInfo = <<>>
     \/ /\ closure.deviceInfo # <<>>
        /\ closure.deviceInfo[1].screenWidth = 1200
        /\ closure.deviceInfo[1].screenHeight = 1600

C11_BufferPrunedEveryTick ==
  [][IsTick =>
       \A i \in DOMAIN mousePositions' : mousePositions'[i].timestamp >= now - 5000
    ]_vars

\* C12: every record of a batch a tick publishes carries the device
\* information held at that tick: its device_type, screen_width,
\* screen_height, window_width and window_height are those of deviceInfo, and
\* not the viewport the record was captured with.
C12_AssemblyTimeDeviceInfo ==
  [][(IsTick /\ Publishes) =>
       /\ deviceInfo # <<>>
       /\ \A i \in DOMAIN throttledLogs' :
            LET r == throttledLogs'[i]
            IN  /\ r.device_type = deviceInfo[1].deviceType
                /\ r.screen_width = deviceInfo[1].screenWidth
                /\ r.screen_height = deviceInfo[1].screenHeight
                /\ r.window_width = deviceInfo[1].windowWidth
                /\ r.window_height = deviceInfo[1].windowHeight
    ]_vars

\* C12 witness: a published window_resize record, captured when the viewport
\* was 800 wide, carries the window width of the device information
C12_Witness ==
  \E k \in DOMAIN published : \E i \in DOMAIN published[k] :
    /\ published[k][i].type = "window_resize"
    /\ published[k][i].data.width = 800
    /\ published[k][i].window_width = 1024

\* C13: once the session has ended no listener of the hook is registered, the
\* interval is cleared and no inactivity task is pending; and from then on no
\* record is appended to the pending log and no batch is published, whatever
\* is dispatched and however far the clock moves.
C13_TeardownReleasesEverything ==
  /\ [](~mounted => (listeners = {} /\ interval = <<>> /\ timeouts = {}))
  /\ [][~mounted =>
          (logs' = logs /\ throttledLogs' = throttledLogs /\ published' = published)
       ]_vars

\* C13 witness: the session ended while the inactivity task of an earlier
\* key-press or pointer-move had not reached its deadline and records were
\* pending, and an event was dispatched after that
C13_Witness ==
  /\ ~mounted
  /\ op = "unheard"
  /\ logs # <<>>
  /\ inactivityTimerRef # <<>>
  /\ inactivityTimerRef[1] > now
  /\ lastInactivity = <<>>

\* the step handles a clipboard event
IsClipboard == op' \in {"copy", "cut", "paste"} /\ inputs' = inputs + 1

\* C14: every copy, cut or paste notification emits one clipboard record
\* whose payload is the action name and the length of the affected text and
\* nothing else; so two clipboard actions of the same kind on different
\* texts of equal length give identical payloads, and copying a selection of
\* 50 characters emits {action: copy, selection: 50}.
C14_ClipboardLengthOnly ==
  [][IsClipboard =>
       LET text == clipboard'[Len(clipboard')]
           n == IF text = <<>> THEN 0 ELSE Len(text[1])
           r == logs'[Len(logs')]
       IN  /\ Len(logs') = Len(logs) + 1
           /\ r.type = "clipboard"
           /\ r.data.action = op'
           /\ r.data = IF op' = "paste"
                       THEN [action |-> "paste", length |-> n]
                       ELSE [action |-> op', selection |-> n]
           /\ (op' = "copy" /\ n = 50) => r.data = [action |-> "copy", selection |-> 50]
           /\ (/\ op = op'
               /\ clipboard # <<>>
               /\ text # <<>>
               /\ clipboard[Len(clipboard)] # <<>>
               /\ clipboard[Len(clipboard)] # text
               /\ Len(clipboard[Len(clipboard)][1]) = n) =>
                 r.data = logs[Len(logs)].data
    ]_vars

\* C14 witness: two copies in a row, of two different selections of 50
\* characters
C14_Witness ==
  /\ op = "copy"
  /\ Len(logs) = 2
  /\ logs[1].data.action = "copy"
  /\ clipboard = <<(<<TextOf("x", 50)>>), (<<TextOf("y", 50)>>)>>

\* C15: at most one inactivity task is pending in every reachable state: when
\* a key-press or an accepted pointer-move has been handled the only pending
\* task is the one it scheduled, due 3000ms later, and when an inactivity
\* record has been emitted no task is left to emit another one for the same
\* quiet period.
C15_OneInactivityTask ==
  /\ [](Cardinality(timeouts) <= 1)
  /\ [](op = "inactivity" => timeouts = {})
  /\ [][(\/ op' = "keydown" /\ inputs' = inputs + 1
         \/ IsMouseMove /\ Len(mousePositions') = Len(mousePositions) + 1) =>
          (timeouts' = {now + 3000} /\ inactivityTimerRef' = <<now + 3000>>)
       ]_vars

\* C15 witness: a key-press, a pointer-move later on while the task of the
\* key-press was pending, and the one inactivity record that followed
C15_Witness ==
  /\ op = "inactivity"
  /\ Len(logs) = 3
  /\ logs[1].type = "key_press"
  /\ logs[2].type = "mouse_move"
  /\ logs[2].timestamp > logs[1].timestamp
  /\ logs[2].timestamp < logs[1].timestamp + 3000
  /\ logs[3].type = "inactivity"
  /\ logs[3].timestamp = logs[2].timestamp + 3000

\* the step delivers a resize notification
IsResize == op' = "resize" /\ inputs' = inputs + 1

\* C16: a pointer-move that arrives less than 500ms after the last accepted
\* one leaves the pending log, the position buffer, the pointer timestamp and
\* the pending inactivity task as they were; a resize that arrives less than
\* 500ms after the last accepted one leaves the pending log and the resize
\* timestamp as they were; and the two gates are independent: a pointer-move,
\* accepted or dropped, leaves the resize timestamp alone, a resize leaves
\* the pointer timestamp alone, and each is accepted exactly when its own
\* 500ms have elapsed.
C16_ThrottledChangesNothing ==
  [][/\ (IsMouseMove /\ now - lastMouseMoveTime < 500) =>
          UNCHANGED <<logs, mousePositions, lastMouseMoveTime, timeouts,
                      inactivityTimerRef>>
     /\ (IsResize /\ now - lastResizeTime < 500) =>
          UNCHANGED <<logs, lastResizeTime>>
     /\ IsMouseMove =>
          /\ lastResizeTime' = lastResizeTime
          /\ logs' # logs <=> now - lastMouseMoveTime >= 500
     /\ IsResize =>
          /\ UNCHANGED <<lastMouseMoveTime, mousePositions, timeouts, inactivityTimerRef>>
          /\ logs' # logs <=> now - lastResizeTime >= 500
    ]_vars

\* C16 witness: a pointer-move dropped 250ms after an accepted one
C16_Witness ==
  /\ op = "mousemove"
  /\ inputs = 2
  /\ Len(mousePositions) = 1
  /\ now = lastMouseMoveTime + 250
  /\ timeouts = {lastMouseMoveTime + 3000}

\* W: the samples of the buffer the analysis ran on whose timestamp is
\* >= now - 5000, in buffer order
C17_W == SelectSeq(closure.mousePositions, LAMBDA pos : pos.timestamp >= now - 5000)

\* the positions in W of the samples in the final 3000ms of the window
C17_Late == {i \in DOMAIN C17_W : C17_W[i].timestamp >= (now - 5000) + 2000}

C18_TickCadence ==
  [][/\ IsTick => (now > Epoch /\ (now - Epoch) % 5000 = 0)
     /\ (mounted /\ now' > now /\ now > Epoch /\ (now - Epoch) % 5000 = 0) =>
          interval = <<now + 5000>>
    ]_vars

\* C19: every visibility-change notification appends exactly one record, a
\* tab_switch whose status is "hidden" or "visible" as the document is at
\* that time, whatever the visibility was before and whatever the focus flag
\* is; and it leaves the focus flag, the two throttle timestamps and the
\* inactivity task as they were.
C19_TabSwitchLevelTriggered ==
  [][(op' = "visibilitychange" /\ inputs' = inputs + 1) =>
       /\ Len(logs') = Len(logs) + 1
       /\ SubSeq(logs', 1, Len(logs)) = logs
       /\ logs'[Len(logs')].type = "tab_switch"
       /\ logs'[Len(logs')].timestamp = now
       /\ logs'[Len(logs')].data = [status |-> IF hidden' THEN "hidden" ELSE "visible"]
       /\ UNCHANGED <<isFocused, lastMouseMoveTime, lastResizeTime, timeouts,
                      inactivityTimerRef>>
    ]_vars

\* C19 witness: two notifications one after the other with the document
\* visible both times, each with its record
C19_Witness ==
  /\ op = "visibilitychange"
  /\ ~hidden
  /\ Len(logs) = 2
  /\ logs[1].type = "tab_switch"
  /\ logs[2].type = "tab_switch"
  /\ logs[1].data.status = "visible"
  /\ logs[2].data.status = "visible"

\* the key is one character: one code unit, or the surrogate pair of one
\* character outside the basic plane
SingleCharacter(key) ==
  \/ Len(key) = 1
  \/ Len(key) = 2 /\ key[1] \in HighSurrogates /\ key[2] \in LowSurrogates

\* C20: a key_press record does not reveal a typed character: for every
\* key-down whose key is a single character the key_type of the record is the
\* constant "character", so two key-presses of different characters give the
\* same payload; only the other keys, whose names are longer than one
\* character, are recorded by name.
C20_KeyPressHidesCharacters ==
  [][(op' = "keydown" /\ inputs' = inputs + 1) =>
       LET key == keys'[Len(keys')]
           r == logs'[Len(logs')]
       IN  /\ Len(logs') = Len(logs) + 1
           /\ r.type = "key_press"
           /\ r.data = [key_type |-> IF SingleCharacter(key) THEN <<"character">> ELSE key]
           /\ (/\ op = "keydown"
               /\ SingleCharacter(key)
               /\ SingleCharacter(keys[Len(keys)])) => r.data = logs[Len(logs)].data
    ]_vars

====
